---- MODULE Spec2Model ----
(***************************************************************************)
(* Student Marks Analysis Dashboard: utils/data_utils.py (load_data,       *)
(* compute_student_aggregates, grade_from_percentage, compute_statistics,  *)
(* filter_data, export_data) and the Streamlit script app.py.              *)
(*                                                                         *)
(* Numbers.  A float score, total or percentage x is held as the integer   *)
(* 100 * x (hundredths), so 89.99 is 8999 and 40.0 is 4000.  The pandas    *)
(* missing value is NaN; every comparison with it is false.                *)
(*                                                                         *)
(* DataFrames.  A frame handled by filter_data, compute_statistics and the *)
(* script is [cols, rows]: the set of its column names and the sequence of *)
(* its rows, each row a function from cols to the cell.  load_data, which  *)
(* alone can give two columns one name, works on the column list.          *)
(***************************************************************************)
EXTENDS Integers, Sequences, FiniteSets, TLC

VARIABLES
    \* where the function under study stands: "ready" before the call,
    \* "returned" after it, "returned_again" after a second call
    pc,
    \* grade_from_percentage(pct): the argument, the returned value
    pct, grade,
    \* filter_data(df, sel_class, sel_section, min_percent, top_n): the
    \* caller's frame, the arguments, the returned frame, and the frame
    \* returned when the result is filtered again with the same arguments
    df, args, filtered, refiltered,
    \* compute_student_aggregates(df, subject_cols, treat_missing_as_zero)
    agg_df, subject_cols, treat_missing_as_zero, agg_out,
    \* compute_statistics(df)
    stat_df, stats,
    \* load_data(path_or_buffer): the parsed CSV, the returned frame
    csv, loaded,
    \* app.py: st.session_state["data"], how the last script run ended, and
    \* the run's df_filtered, stats and export
    session_data, run, df_filtered, kpis, exported

gradeVars == <<pct, grade>>
filterVars == <<df, args, filtered, refiltered>>
aggVars == <<agg_df, subject_cols, treat_missing_as_zero, agg_out>>
statVars == <<stat_df, stats>>
loadVars == <<csv, loaded>>
appVars == <<session_data, run, df_filtered, kpis, exported>>
vars == <<pc, gradeVars, filterVars, aggVars, statVars, loadVars, appVars>>

\* A variable of a function that has not been called, an absent argument
None == "None"

\* The variables of the functions a specification does not exercise
GradeIdle == pct = None /\ grade = None
FilterIdle == df = None /\ args = None /\ filtered = None /\ refiltered = None
AggIdle ==
    /\ agg_df = None /\ subject_cols = None
    /\ treat_missing_as_zero = None /\ agg_out = None
StatIdle == stat_df = None /\ stats = None
LoadIdle == csv = None /\ loaded = None
AppIdle ==
    /\ session_data = None /\ run = None /\ df_filtered = None
    /\ kpis = None /\ exported = None

\* pandas' missing value (numpy.nan), outside the range of every number held
NaN == -1

\* float comparison: a >= b, false when a is NaN
GE(a, b) == a # NaN /\ a >= b

Range(s) == {s[i] : i \in DOMAIN s}

(***************************************************************************)
(* grade_from_percentage                                                   *)
(***************************************************************************)

\* Largest percentage given to grade_from_percentage, in hundredths
MaxPct == 10000

\* The texts float() parses, with the value each spells
NumericText == ("90" :> 9000) @@ ("89.99" :> 8999) @@ ("40.0" :> 4000) @@
               ("39.99" :> 3999) @@ ("nan" :> NaN)

\* Texts float() rejects with ValueError
OtherText == {"x", "", "A+", "ninety"}

\* float(pct): [ok, val]; ok is false where float() raises (ValueError for a
\* text that spells no number, TypeError for None)
Float(p) ==
    CASE p.kind = "float" -> [ok |-> TRUE, val |-> p.v]
      [] p.kind = "str" ->
            IF p.v \in DOMAIN NumericText
            THEN [ok |-> TRUE, val |-> NumericText[p.v]]
            ELSE [ok |-> FALSE, val |-> NaN]
      [] OTHER -> [ok |-> FALSE, val |-> NaN]

\* Mutant: the boundaries are exclusive
LadderExclusive(v) ==
    IF v # NaN /\ v > 9000 THEN "A+"
    ELSE IF v # NaN /\ v > 8000 THEN "A"
    ELSE IF v # NaN /\ v > 7000 THEN "B+"
    ELSE IF v # NaN /\ v > 6000 THEN "B"
    ELSE IF v # NaN /\ v > 5000 THEN "C"
    ELSE IF v # NaN /\ v > 4000 THEN "D"
    ELSE "F"

\* The ladder of lines 49-55 on a float
Ladder(v) ==
    IF GE(v, 9000) THEN "A+"
    ELSE IF GE(v, 8000) THEN "A"
    ELSE IF GE(v, 7000) THEN "B+"
    ELSE IF GE(v, 6000) THEN "B"
    ELSE IF GE(v, 5000) THEN "C"
    ELSE IF GE(v, 4000) THEN "D"
    ELSE "F"

grade_from_percentage(p) ==
    LET f == Float(p) IN IF ~f.ok THEN "N/A" ELSE Ladder(f.val)

GradeInit ==
    /\ \/ \E v \in (0..MaxPct) \cup {NaN} : pct = [kind |-> "float", v |-> v]
       \/ \E s \in (DOMAIN NumericText) \cup OtherText : pct = [kind |-> "str", v |-> s]
       \/ pct = [kind |-> "none", v |-> None]
    /\ grade = None
    /\ pc = "ready"

GradeCall ==
    /\ pc = "ready"
    /\ grade' = grade_from_percentage(pct)
    /\ pc' = "returned"
    /\ UNCHANGED pct


(***************************************************************************)
(* filter_data                                                             *)
(***************************************************************************)

\* Most rows of a frame given to filter_data
MaxRecords == 3

\* Largest top_n given to filter_data
MaxTopN == 2

Classes == {"10", "11"}
Sections == {"A", "B"}
Percentages == {4500, 5000, NaN}

\* The frames given to filter_data: StudentID numbers the rows in input
\* order; Class, Section and Percentage are each present or absent
FilterFrame(cs, cells) ==
    [cols |-> cs \cup {"StudentID"},
     rows |-> [i \in DOMAIN cells |->
                 [c \in cs \cup {"StudentID"} |->
                    CASE c = "StudentID" -> i
                      [] c = "Class" -> cells[i][1]
                      [] c = "Section" -> cells[i][2]
                      [] OTHER -> cells[i][3]]]]

\* sel_class and sel_section are "All" or a value; min_percent is a whole
\* percentage; top_n is <<>> for None and <<k>> for the integer k
FilterArgs ==
    [sel_class : {"All", "10"}, sel_section : {"All", "A"},
     min_percent : {0, 50}, top_n : {<<>>} \cup {<<k>> : k \in 0..MaxTopN}]

\* frame[mask]: the rows that pass, in their order
Keep(rows, Test(_)) == SelectSeq(rows, Test)

\* The positions, among those of S, of the rows of largest Percentage
Largest(rows, S) ==
    {i \in S : \A j \in S : rows[i].Percentage >= rows[j].Percentage}

RECURSIVE Descending(_, _)
\* The orders in which a sort by Percentage descending that is not stable
\* can leave the rows at the positions S: among equal keys, any
Descending(rows, S) ==
    IF S = {} THEN {<<>>}
    ELSE UNION {{<<rows[i]>> \o t : t \in Descending(rows, S \ {i})}
                : i \in Largest(rows, S)}

\* frame.sort_values(by="Percentage", ascending=False): kind defaults to
\* "quicksort", which pandas documents as not stable, and na_position to
\* "last".  The rows come out by Percentage descending, the NaN rows after
\* them in their input order; rows of equal Percentage come out in any order
\* (numpy's introsort or its SIMD sort, by build and by length).
SortValues(rows) ==
    LET IsNa(r) == r.Percentage = NaN
        last == SelectSeq(rows, IsNa)
    IN  {s \o last : s \in
            Descending(rows, {i \in DOMAIN rows : rows[i].Percentage # NaN})}

\* frame.head(n)
HeadRows(rows, n) == SubSeq(rows, 1, IF n < Len(rows) THEN n ELSE Len(rows))

\* Lines 77-78
ClassStep(d, a) ==
    LET Test(r) == r.Class = a.sel_class
    IN  IF a.sel_class # "All" /\ "Class" \in d.cols
        THEN [d EXCEPT !.rows = Keep(d.rows, Test)] ELSE d

\* Lines 79-80
SectionStep(d, a) ==
    LET Test(r) == r.Section = a.sel_section
    IN  IF a.sel_section # "All" /\ "Section" \in d.cols
        THEN [d EXCEPT !.rows = Keep(d.rows, Test)] ELSE d

\* Mutant: the threshold is exclusive
MinPercentStepStrict(d, a) ==
    LET Test(r) == r.Percentage # NaN /\ r.Percentage > 100 * a.min_percent
    IN  IF a.min_percent > 0 /\ "Percentage" \in d.cols
        THEN [d EXCEPT !.rows = Keep(d.rows, Test)] ELSE d

\* Lines 81-82
MinPercentStep(d, a) ==
    LET Test(r) == GE(r.Percentage, 100 * a.min_percent)
    IN  IF a.min_percent > 0 /\ "Percentage" \in d.cols
        THEN [d EXCEPT !.rows = Keep(d.rows, Test)] ELSE d

\* Lines 83-84: the frames the sort and head(int(top_n)) can give
TopNStep(d, a) ==
    IF a.top_n # <<>> /\ a.top_n[1] # 0 /\ "Percentage" \in d.cols
    THEN {[d EXCEPT !.rows = HeadRows(s, a.top_n[1])] : s \in SortValues(d.rows)}
    ELSE {d}

\* The frames filter_data(d, ...) can return
filter_data(d, a) == TopNStep(MinPercentStep(SectionStep(ClassStep(d, a), a), a), a)

FilterInit ==
    /\ \E cs \in SUBSET {"Class", "Section", "Percentage"} :
         \E n \in 0..MaxRecords :
           \E cells \in [1..n -> Classes \X Sections \X Percentages] :
              df = FilterFrame(cs, cells)
    /\ args = [sel_class |-> "All", sel_section |-> "All", min_percent |-> 0,
               top_n |-> <<>>]
    /\ filtered = df
    /\ refiltered = df
    /\ pc = "ready"

\* df_filtered = filter_data(df, sel_class, sel_section, min_percent, top_n)
FilterCall ==
    /\ pc = "ready"
    /\ \E a \in FilterArgs :
         /\ args' = a
         /\ filtered' \in filter_data(df, a)
    /\ pc' = "returned"
    /\ UNCHANGED <<df, refiltered>>

\* filter_data(df_filtered, ...) with the arguments of the first call
FilterAgain ==
    /\ pc = "returned"
    /\ refiltered' \in filter_data(filtered, args)
    /\ pc' = "returned_again"
    /\ UNCHANGED <<df, args, filtered>>


(***************************************************************************)
(* compute_student_aggregates                                              *)
(***************************************************************************)

\* Most subject columns of a frame, and most rows of a frame, given to
\* compute_student_aggregates
MaxSubjects == 3
MaxAggRows == 1

SubjectNames == <<"Math", "Science", "English", "History", "Art">>
Subjects == {SubjectNames[i] : i \in 1..MaxSubjects}

\* Subject scores within [0,100], in hundredths (50.52 is 5052), or missing
Scores == {NaN, 5052, 10000}

RECURSIVE SumOver(_, _)
\* Series.sum(skipna=True), and the sum after fillna(0.0): NaN adds nothing
SumOver(r, cs) ==
    IF cs = {} THEN 0
    ELSE LET c == CHOOSE x \in cs : TRUE
         IN  (IF r[c] = NaN THEN 0 ELSE r[c]) + SumOver(r, cs \ {c})

\* DataFrame.count(axis=1): the cells of the row that are not NaN
CountPresent(r, cs) == Cardinality({c \in cs : r[c] # NaN})

\* Float division of two numbers >= 0, kept exact: <<num, den>>, and <<>>
\* for the NaN that 0 / 0 gives (a total over no cell is 0)
Quotient(num, den) == IF den = 0 THEN <<>> ELSE <<num, den>>

\* Mutant: the missing-value fill of line 37 is left out
NoFillNa(q) == q

\* Series.fillna(0) of line 37
FillNa(q) == IF q = <<>> THEN <<0, 1>> ELSE q

\* Series.round(2): to the nearest hundredth, a tie to the even one
Round2(q) ==
    IF q = <<>> THEN NaN
    ELSE LET lo == q[1] \div q[2]
             rem == q[1] % q[2]
         IN  IF 2 * rem < q[2] THEN lo
             ELSE IF 2 * rem > q[2] THEN lo + 1
             ELSE IF lo % 2 = 0 THEN lo ELSE lo + 1

\* Series.astype(int) of a total >= 0: the fraction is dropped
AsInt(total) == (total \div 100) * 100

\* Lines 25-27: a requested subject column the frame lacks is added as 0.0
WithSubjects(d, sc) ==
    [cols |-> d.cols \cup sc,
     rows |-> [i \in DOMAIN d.rows |->
                 [c \in d.cols \cup sc |->
                    IF c \in d.cols THEN d.rows[i][c] ELSE 0]]]

\* Mutant: max_total is 100 whatever the number of subjects
RowPercentageFlatMax(r, sc, zero) ==
    IF zero
    THEN Quotient(SumOver(r, sc), 1)
    ELSE FillNa(Quotient(SumOver(r, sc), CountPresent(r, sc)))

\* Lines 28-37: the percentage of one row before rounding.  total / max_total
\* * 100 with max_total = 100 * len(subject_cols) is total / len(subject_cols)
RowPercentage(r, sc, zero) ==
    IF zero
    THEN Quotient(SumOver(r, sc), Cardinality(sc))
    ELSE FillNa(Quotient(SumOver(r, sc), CountPresent(r, sc)))

\* Lines 38-40: the row with Total, Percentage and Grade set
Enriched(r, sc, zero) ==
    LET percentage == Round2(RowPercentage(r, sc, zero))
    IN  [c \in (DOMAIN r) \cup {"Total", "Percentage", "Grade"} |->
           CASE c = "Total" -> AsInt(SumOver(r, sc))
             [] c = "Percentage" -> percentage
             [] c = "Grade" -> grade_from_percentage([kind |-> "float", v |-> percentage])
             [] OTHER -> r[c]]

compute_student_aggregates(d, sc, zero) ==
    LET d1 == WithSubjects(d, sc)
    IN  [cols |-> d1.cols \cup {"Total", "Percentage", "Grade"},
         rows |-> [i \in DOMAIN d1.rows |-> Enriched(d1.rows[i], sc, zero)]]

AggInit ==
    /\ \E cs \in SUBSET Subjects :
         \E n \in 0..MaxAggRows :
           \E rows \in [1..n -> [cs -> Scores]] :
              agg_df = [cols |-> cs, rows |-> rows]
    /\ subject_cols \in SUBSET Subjects
    /\ treat_missing_as_zero \in BOOLEAN
    /\ agg_out = agg_df
    /\ pc = "ready"

AggCall ==
    /\ pc = "ready"
    /\ agg_out' = compute_student_aggregates(agg_df, subject_cols, treat_missing_as_zero)
    /\ pc' = "returned"
    /\ UNCHANGED <<agg_df, subject_cols, treat_missing_as_zero>>

(***************************************************************************)
(* compute_statistics                                                      *)
(***************************************************************************)

\* Most rows of a frame given to compute_statistics
MaxStatRows == 3

StatPercentages == {3996, 4000, 7500, NaN}

\* The cells of a column that are not NaN, in row order (skipna)
NotNa(d, c) ==
    LET Test(r) == r[c] # NaN
        kept == SelectSeq(d.rows, Test)
    IN  [i \in DOMAIN kept |-> kept[i][c]]

RECURSIVE SumSeq(_)
SumSeq(v) == IF v = <<>> THEN 0 ELSE Head(v) + SumSeq(Tail(v))

\* v in ascending order
Ascending(v) ==
    CHOOSE s \in [DOMAIN v -> Range(v)] :
        /\ \A i, j \in DOMAIN s : i < j => s[i] <= s[j]
        /\ \A x \in Range(v) :
              Cardinality({i \in DOMAIN s : s[i] = x})
                  = Cardinality({i \in DOMAIN v : v[i] = x})

\* Series.mean(): NaN cells are skipped; NaN when none is left
Mean(v) == Quotient(SumSeq(v), Len(v))

\* Series.median(): the middle value, or the mean of the two middle values
Median(v) ==
    LET s == Ascending(v)
        n == Len(v)
    IN  IF n = 0 THEN <<>>
        ELSE IF n % 2 = 1 THEN <<s[(n + 1) \div 2], 1>>
        ELSE <<s[n \div 2] + s[n \div 2 + 1], 2>>

\* Series.max()
Highest(v) ==
    IF v = <<>> THEN <<>> ELSE <<CHOOSE x \in Range(v) : \A y \in Range(v) : y <= x, 1>>

\* Mutant: a pass needs more than 40
IsPassStrict(p) == p # NaN /\ p > 4000

\* df["Percentage"] >= 40
IsPass(p) == GE(p, 4000)

\* (df["Percentage"] >= 40).mean() * 100: over every row, a NaN row failing
PassRate(d) ==
    Quotient(10000 * Cardinality({i \in DOMAIN d.rows : IsPass(d.rows[i].Percentage)}),
             Len(d.rows))

\* DataFrame.empty: no row or no column
Empty(d) == d.rows = <<>> \/ d.cols = {}

compute_statistics(d) ==
    IF Empty(d) \/ "Percentage" \notin d.cols
    THEN [avg |-> 0, median |-> 0, highest |-> 0, pass_rate |-> 0]
    ELSE LET v == NotNa(d, "Percentage")
         IN  [avg |-> Round2(Mean(v)),
              median |-> Round2(Median(v)),
              highest |-> Round2(Highest(v)),
              pass_rate |-> Round2(PassRate(d))]

StatInit ==
    /\ \E n \in 0..MaxStatRows :
         \/ \E ps \in [1..n -> StatPercentages] :
               stat_df = [cols |-> {"StudentID", "Percentage"},
                          rows |-> [i \in 1..n |->
                                      [StudentID |-> i, Percentage |-> ps[i]]]]
         \/ stat_df = [cols |-> {"StudentID"},
                       rows |-> [i \in 1..n |-> [StudentID |-> i]]]
    /\ stats = [avg |-> 0, median |-> 0, highest |-> 0, pass_rate |-> 0]
    /\ pc = "ready"

StatCall ==
    /\ pc = "ready"
    /\ stats' = compute_statistics(stat_df)
    /\ pc' = "returned"
    /\ UNCHANGED stat_df

(***************************************************************************)
(* load_data                                                               *)
(***************************************************************************)

\* Most columns, and most rows, of a CSV given to load_data
MaxCols == 3
MaxLoadRows == 1

\* A column name as read_csv gives it: the text, and whether whitespace
\* leads or trails it (read_csv keeps the blank after a comma)
Padded(text, lead, trail) == [text |-> text, lead |-> lead, trail |-> trail]
Name(text) == Padded(text, FALSE, FALSE)
HeaderNames ==
    {Padded(t, l, r) : t \in {"StudentID", "Name", "Math"}, l \in BOOLEAN, r \in BOOLEAN}

\* str.strip()
Strip(n) == Name(n.text)

\* pd.read_csv of a parseable CSV: the header's names, no two alike (read_csv
\* renames a repeated one), and for each column its cells <<"csv", j, i>>
ReadCsv(header, n) ==
    [columns |-> header,
     values |-> [j \in DOMAIN header |-> [i \in 1..n |-> <<"csv", j, i>>]],
     nrows |-> n]

\* DataFrame.insert(loc, column, value)
Insert(f, loc, name, cells) ==
    LET at == loc + 1
    IN  [columns |-> SubSeq(f.columns, 1, at - 1) \o <<name>>
                        \o SubSeq(f.columns, at, Len(f.columns)),
         values |-> SubSeq(f.values, 1, at - 1) \o <<cells>>
                        \o SubSeq(f.values, at, Len(f.values)),
         nrows |-> f.nrows]

\* range(1, len(df) + 1), and f"Student {i}" over it
IdRange(n) == [i \in 1..n |-> <<"range", 0, i>>]
StudentNames(n) == [i \in 1..n |-> <<"Student", 0, i>>]

\* Lines 15-16
EnsureStudentID(f) ==
    IF Name("StudentID") \notin Range(f.columns)
    THEN Insert(f, 0, Name("StudentID"), IdRange(f.nrows)) ELSE f

\* Lines 17-18
EnsureName(f) ==
    IF Name("Name") \notin Range(f.columns)
    THEN Insert(f, 1, Name("Name"), StudentNames(f.nrows)) ELSE f

\* Line 19
StripColumns(f) ==
    [f EXCEPT !.columns = [j \in DOMAIN f.columns |-> Strip(f.columns[j])]]

load_data(f) == StripColumns(EnsureName(EnsureStudentID(f)))

Headers ==
    UNION {{h \in [1..k -> HeaderNames] : \A i, j \in 1..k : i # j => h[i] # h[j]}
           : k \in 1..MaxCols}

LoadInit ==
    /\ \E h \in Headers : \E n \in 0..MaxLoadRows : csv = ReadCsv(h, n)
    /\ loaded = csv
    /\ pc = "ready"

LoadCall ==
    /\ pc = "ready"
    /\ loaded' = load_data(csv)
    /\ pc' = "returned"
    /\ UNCHANGED csv

(***************************************************************************)
(* export_data                                                             *)
(***************************************************************************)

\* df.to_csv(index=False) and df.to_excel(index=False, sheet_name=
\* "Students"): the header and the rows of the frame, without the index
export_data(d) ==
    [csv_data |-> [header |-> d.cols, records |-> d.rows],
     excel_data |-> [sheet_name |-> "Students", header |-> d.cols, records |-> d.rows]]

(***************************************************************************)
(* app.py: one action is one run of the script                             *)
(***************************************************************************)

\* The students of the uploaded tables: the first three carry the scores
\* (80,70), (50,40), (100,100); the last ties with the first at 75 percent
Roster(i) ==
    [StudentID |-> 100 + i,
     Name |-> <<"Asha", "Ben", "Chen", "Dipa", "Eli">>[i],
     Class |-> <<"10th", "10th", "11th", "11th", "10th">>[i],
     Section |-> <<"A", "B", "A", "B", "A">>[i],
     Grade |-> "Z",
     Math |-> <<8000, 5000, 10000, 4000, 7000>>[i],
     Science |-> <<7000, 4000, 10000, 3000, 8000>>[i]]

\* A table as a file holds it: the header's names, the columns read_csv and
\* read_excel type as numbers, and the rows
Table(header, n) ==
    [header |-> header,
     numeric |-> Range(header) \cap {"StudentID", "Math", "Science"},
     rows |-> [i \in 1..n |-> [c \in Range(header) |-> Roster(i)[c]]]]

\* The files a user can upload: the name's suffix, whether the content
\* parses, and the table it holds
File(suffix, parses, table) == [suffix |-> suffix, parses |-> parses, table |-> table]
FullTable == Table(<<"StudentID", "Name", "Class", "Section", "Math", "Science">>, 5)
BareTable == Table(<<"Class", "Section", "Math", "Science">>, 5)
GradedTable == Table(<<"StudentID", "Name", "Section", "Grade", "Math", "Science">>, 5)
ShortTable == Table(<<"Name", "Section", "Math", "Science">>, 3)
NoSectionTable == Table(<<"StudentID", "Name", "Math", "Science">>, 5)
TextTable == Table(<<"Name", "Section">>, 5)
Files ==
    <<File(".csv", TRUE, FullTable), File(".csv", TRUE, BareTable),
      File(".csv", TRUE, GradedTable), File(".csv", TRUE, ShortTable),
      File(".csv", TRUE, NoSectionTable), File(".csv", TRUE, TextTable),
      File(".csv", FALSE, FullTable),
      File(".xlsx", TRUE, FullTable), File(".xlsx", TRUE, BareTable),
      File(".xlsx", TRUE, GradedTable), File(".xlsx", FALSE, FullTable),
      File(".CSV", TRUE, FullTable)>>

\* data/sample_marks.csv, which load_data may find or not
SampleTable == FullTable

\* The text f"Student {i}"
StudentText(i) == <<"Student 1", "Student 2", "Student 3", "Student 4", "Student 5">>[i]

\* The frame load_data returns for a table, as [cols, numeric, rows]
LoadedFrame(t) ==
    LET f == load_data(ReadCsv([j \in DOMAIN t.header |-> Name(t.header[j])],
                               Len(t.rows)))
        At(c) == CHOOSE j \in DOMAIN f.columns : f.columns[j].text = c
        Cell(c, i) ==
            LET v == f.values[At(c)][i]
            IN  CASE v[1] = "csv" -> t.rows[i][t.header[v[2]]]
                  [] v[1] = "range" -> v[3]
                  [] OTHER -> StudentText(v[3])
        cs == {f.columns[j].text : j \in DOMAIN f.columns}
    IN  [cols |-> cs,
         numeric |-> t.numeric \cup {"StudentID"},
         rows |-> [i \in 1..f.nrows |-> [c \in cs |-> Cell(c, i)]]]

\* The frame pd.read_excel returns for a table (line 41)
ExcelFrame(t) == [cols |-> Range(t.header), numeric |-> t.numeric, rows |-> t.rows]

\* Lines 33-42, the load: [raised, frame].  load_data and read_excel raise on
\* content that does not parse; a name that ends neither in .csv nor in
\* .xlsx leaves df unbound, and line 42 raises NameError
LoadUpload(file) ==
    CASE file.suffix = ".csv" /\ file.parses ->
            [raised |-> FALSE, frame |-> <<LoadedFrame(file.table)>>]
      [] file.suffix = ".xlsx" /\ file.parses ->
            [raised |-> FALSE, frame |-> <<ExcelFrame(file.table)>>]
      [] OTHER -> [raised |-> TRUE, frame |-> <<>>]

\* Mutant: the slot is cleared before the load is tried
SlotCleared(slot, load) == IF load.raised THEN <<>> ELSE load.frame

\* Lines 35 and 42: st.session_state["data"] = df, reached only when the
\* load did not raise
SlotAfter(slot, load) == IF load.raised THEN slot ELSE load.frame

\* Lines 52-53
SubjectCols(d) == d.numeric \ {"Total", "Percentage", "StudentID"}

\* Lines 59-60, on the frame the session holds (df is that object): Total is
\* the row's sum, Percentage is Total / (len(subject_cols) * 100) * 100,
\* neither rounded.  The scores of Roster are whole and the subjects two, so
\* the quotient is a whole number of hundredths.
WithTotals(d) ==
    LET sc == SubjectCols(d)
        Total(r) == SumOver(r, sc)
    IN  [cols |-> d.cols \cup {"Total", "Percentage"},
         numeric |-> d.numeric \cup {"Total", "Percentage"},
         rows |-> [i \in DOMAIN d.rows |->
                     [c \in d.cols \cup {"Total", "Percentage"} |->
                        CASE c = "Total" -> Total(d.rows[i])
                          [] c = "Percentage" -> Total(d.rows[i]) \div Cardinality(sc)
                          [] OTHER -> d.rows[i][c]]]]

\* Lines 63-69: what the sidebar lets the user choose.  The slider gives a
\* whole percentage from 0 to 100, of which two are tried.
Widgets(d) ==
    [sel_class : IF "Class" \in d.cols
                 THEN {"All"} \cup {d.rows[i].Class : i \in DOMAIN d.rows}
                 ELSE {"All"},
     sel_section : IF "Section" \in d.cols
                   THEN {"All"} \cup {d.rows[i].Section : i \in DOMAIN d.rows}
                   ELSE {"All"},
     min_percent : {0, 50},
     top_n : {<<k>> : k \in 1..Len(d.rows)}]

\* The default value of st.number_input("Show Top N Students", 1, len(df), 5)
TopNDefault == 5

NoFrame == [cols |-> {}, numeric |-> {}, rows |-> <<>>]
NoKpis == [avg |-> 0, median |-> 0, highest |-> 0, pass_rate |-> 0]
NoExport == export_data(NoFrame)

\* A run that stops at `ended` before anything is filtered
Stops(via, file, ended) ==
    /\ run' = [via |-> via, file |-> file, ended |-> ended]
    /\ df_filtered' = NoFrame
    /\ kpis' = NoKpis
    /\ exported' = NoExport

\* Lines 44-189 with the session's slot as the load left it
Script(via, file, slot) ==
    /\ session_data' = IF slot # <<>> /\ SubjectCols(slot[1]) # {}
                       THEN <<WithTotals(slot[1])>> ELSE slot
    /\ IF slot = <<>> THEN Stops(via, file, "no_data")
       ELSE IF SubjectCols(slot[1]) = {} THEN Stops(via, file, "no_subjects")
       \* number_input raises when its default exceeds max_value = len(df)
       ELSE IF Len(slot[1].rows) < TopNDefault THEN Stops(via, file, "widget_raised")
       ELSE LET df_now == WithTotals(slot[1])
            IN \E a \in Widgets(df_now) : \E r \in filter_data(df_now, a) :
                 /\ df_filtered' = r
                 /\ kpis' = compute_statistics(r)
                 \* df_filtered[top_cols] raises KeyError without Name, Section
                 /\ IF {"Name", "Section"} \subseteq r.cols
                    THEN /\ exported' = export_data(r)
                         /\ run' = [via |-> via, file |-> file, ended |-> "done"]
                    ELSE /\ exported' = NoExport
                         /\ run' = [via |-> via, file |-> file, ended |-> "render_raised"]

\* A run whose load raised: the script ends there
LoadRaised(via, file) ==
    /\ session_data' = SlotAfter(session_data, [raised |-> TRUE, frame |-> <<>>])
    /\ Stops(via, file, "load_raised")

\* The "Load sample data" button was pressed (lines 33-36)
RunSample ==
    \E found \in BOOLEAN :
        IF found
        THEN Script("sample", 0,
                    SlotAfter(session_data,
                              [raised |-> FALSE, frame |-> <<LoadedFrame(SampleTable)>>]))
        ELSE LoadRaised("sample", 0)

\* The uploader holds file k (lines 37-42)
RunUpload(k) ==
    IF LoadUpload(Files[k]).raised
    THEN LoadRaised("upload", k)
    ELSE Script("upload", k, SlotAfter(session_data, LoadUpload(Files[k])))

\* The uploader holds a file named *.csv (lines 38-39)
RunUploadCsv == \E k \in DOMAIN Files : Files[k].suffix = ".csv" /\ RunUpload(k)

\* The uploader holds a file named *.xlsx (lines 40-41)
RunUploadExcel == \E k \in DOMAIN Files : Files[k].suffix = ".xlsx" /\ RunUpload(k)

\* The uploader holds a file whose name ends in neither (the uploader's
\* type filter does not look at case)
RunUploadOther ==
    \E k \in DOMAIN Files : Files[k].suffix \notin {".csv", ".xlsx"} /\ RunUpload(k)

\* A rerun with no button pressed and no file in the uploader
RunPlain == Script("rerun", 0, session_data)

AppInit ==
    /\ session_data = <<>>
    /\ run = [via |-> "none", file |-> 0, ended |-> "start"]
    /\ df_filtered = NoFrame
    /\ kpis = NoKpis
    /\ exported = NoExport
    /\ pc = "script"

(***************************************************************************)
(* Specifications: one per function, and Spec for the script               *)
(***************************************************************************)

GradeNext == GradeCall /\ UNCHANGED <<filterVars, aggVars, statVars, loadVars, appVars>>
InitGrade == GradeInit /\ FilterIdle /\ AggIdle /\ StatIdle /\ LoadIdle /\ AppIdle
SpecGrade == InitGrade /\ [][GradeNext]_vars

FilterFirst == FilterCall /\ UNCHANGED <<gradeVars, aggVars, statVars, loadVars, appVars>>
FilterSecond == FilterAgain /\ UNCHANGED <<gradeVars, aggVars, statVars, loadVars, appVars>>
FilterNext == FilterFirst \/ FilterSecond
InitFilter == FilterInit /\ GradeIdle /\ AggIdle /\ StatIdle /\ LoadIdle /\ AppIdle
SpecFilter == InitFilter /\ [][FilterNext]_vars

AggNext == AggCall /\ UNCHANGED <<gradeVars, filterVars, statVars, loadVars, appVars>>
InitAgg == AggInit /\ GradeIdle /\ FilterIdle /\ StatIdle /\ LoadIdle /\ AppIdle
SpecAgg == InitAgg /\ [][AggNext]_vars

StatNext == StatCall /\ UNCHANGED <<gradeVars, filterVars, aggVars, loadVars, appVars>>
InitStat == StatInit /\ GradeIdle /\ FilterIdle /\ AggIdle /\ LoadIdle /\ AppIdle
SpecStat == InitStat /\ [][StatNext]_vars

LoadNext == LoadCall /\ UNCHANGED <<gradeVars, filterVars, aggVars, statVars, appVars>>
InitLoad == LoadInit /\ GradeIdle /\ FilterIdle /\ AggIdle /\ StatIdle /\ AppIdle
SpecLoad == InitLoad /\ [][LoadNext]_vars

others == <<pc, gradeVars, filterVars, aggVars, statVars, loadVars>>
SampleRun == RunSample /\ UNCHANGED others
CsvRun == RunUploadCsv /\ UNCHANGED others
ExcelRun == RunUploadExcel /\ UNCHANGED others
OtherRun == RunUploadOther /\ UNCHANGED others
PlainRun == RunPlain /\ UNCHANGED others
Next == SampleRun \/ CsvRun \/ ExcelRun \/ OtherRun \/ PlainRun
Init == AppInit /\ GradeIdle /\ FilterIdle /\ AggIdle /\ StatIdle /\ LoadIdle
Spec == Init /\ [][Next]_vars

(***************************************************************************)
(* Claims                                                                  *)
(***************************************************************************)

\* The number a grade_from_percentage argument stands for, when it is one
IsNumber(p) == p.kind = "float" \/ (p.kind = "str" /\ p.v \in DOMAIN NumericText)
NumberOf(p) == IF p.kind = "float" THEN p.v ELSE NumericText[p.v]

\* C1: for a numeric percentage p the grade is A+ from 90, A from 80, B+
\* from 70, B from 60, C from 50, D from 40 and F below, each boundary
\* belonging to the higher grade; any other argument gives N/A.
C1_GradeLadder ==
    pc = "returned" =>
        IF IsNumber(pct)
        THEN LET p == NumberOf(pct)
             IN  /\ grade = "A+" <=> (p # NaN /\ p >= 9000)
                 /\ grade = "A" <=> (p # NaN /\ p >= 8000 /\ p < 9000)
                 /\ grade = "B+" <=> (p # NaN /\ p >= 7000 /\ p < 8000)
                 /\ grade = "B" <=> (p # NaN /\ p >= 6000 /\ p < 7000)
                 /\ grade = "C" <=> (p # NaN /\ p >= 5000 /\ p < 6000)
                 /\ grade = "D" <=> (p # NaN /\ p >= 4000 /\ p < 5000)
                 /\ grade = "F" <=> (p = NaN \/ p < 4000)
        ELSE grade = "N/A"

\* C1 witness: the boundary 90.0 has been graded A+
C1_Witness ==
    pc = "returned" /\ pct = [kind |-> "float", v |-> 9000] /\ grade = "A+"

\* The predicates of a filter_data call that are active on frame d
Passes(d, a, r) ==
    /\ (a.sel_class # "All" /\ "Class" \in d.cols) => r.Class = a.sel_class
    /\ (a.sel_section # "All" /\ "Section" \in d.cols) => r.Section = a.sel_section
    /\ (a.min_percent > 0 /\ "Percentage" \in d.cols) =>
            (r.Percentage # NaN /\ r.Percentage >= 100 * a.min_percent)

\* C2: with top_n unset the result holds exactly the input rows that pass
\* every active predicate, in input order, with the input's columns; a
\* predicate on an absent column is skipped; the input frame is not changed.
C2_FilterExact ==
    /\ [](pc # "ready" /\ args.top_n = <<>> =>
            /\ filtered.cols = df.cols
            /\ \A i \in DOMAIN df.rows :
                  Passes(df, args, df.rows[i]) <=> df.rows[i] \in Range(filtered.rows)
            /\ \A i \in DOMAIN filtered.rows : filtered.rows[i] \in Range(df.rows)
            /\ \A i, j \in DOMAIN filtered.rows :
                  i < j => filtered.rows[i].StudentID < filtered.rows[j].StudentID)
    /\ [][df' = df]_vars

\* C2 witness: min_percent = 50 dropped a 45.0 row and kept a 50.0 row, and
\* a class filter on a frame with no Class column was skipped
C2_Witness ==
    /\ pc = "returned" /\ args.top_n = <<>> /\ args.min_percent = 50
    /\ args.sel_class = "10" /\ "Class" \notin df.cols
    /\ "Percentage" \in df.cols
    /\ Len(df.rows) = 3 /\ Len(filtered.rows) = 2
    /\ \E i \in DOMAIN df.rows : df.rows[i].Percentage = 4500
    /\ \E i \in DOMAIN filtered.rows : filtered.rows[i].Percentage = 5000

\* The rows that pass the class, section and min_percent steps
Passed(d, a) == LET Test(r) == Passes(d, a, r) IN SelectSeq(d.rows, Test)

\* r comes before s in a stable descending sort by Percentage, NaN last
StablyBefore(r, s) ==
    \/ r.Percentage # NaN /\ s.Percentage = NaN
    \/ r.Percentage # NaN /\ s.Percentage # NaN /\ r.Percentage > s.Percentage
    \/ r.Percentage = s.Percentage /\ r.StudentID < s.StudentID

CellOf(i, c) == IF c \in agg_df.cols THEN agg_df.rows[i][c] ELSE 0
PresentIn(i) == {c \in subject_cols : CellOf(i, c) # NaN}

RECURSIVE SumPresent(_, _)
SumPresent(i, cs) ==
    IF cs = {} THEN 0
    ELSE LET c == CHOOSE x \in cs : TRUE
         IN  CellOf(i, c) + SumPresent(i, cs \ {c})

\* C5: with every subject score in [0,100] or missing and at least one
\* subject column, every returned row has Percentage within [0,100], under
\* both missing-value policies.
C5_PercentageInRange ==
    (pc = "returned" /\ subject_cols # {}) =>
        \A i \in DOMAIN agg_out.rows :
            /\ agg_out.rows[i].Percentage # NaN
            /\ agg_out.rows[i].Percentage >= 0
            /\ agg_out.rows[i].Percentage <= 10000

\* C5 witness: skip-missing gave 100.0 to a row with a missing score
C5_Witness ==
    /\ pc = "returned" /\ ~treat_missing_as_zero
    /\ subject_cols = {"Math", "Science"} /\ agg_df.cols = {"Math", "Science"}
    /\ Len(agg_out.rows) = 1
    /\ agg_df.rows[1].Math = NaN
    /\ agg_out.rows[1].Percentage = 10000

\* C6 as stated: under skip-missing Total is the sum of the present values,
\* Percentage is Total / (100 x their number) x 100, and both are 0 when no
\* value is present.
C6_SkipMissingExact ==
    (pc = "returned" /\ ~treat_missing_as_zero) =>
        \A i \in DOMAIN agg_out.rows :
            LET n == Cardinality(PresentIn(i))
                out == agg_out.rows[i]
            IN  /\ out.Total = SumPresent(i, PresentIn(i))
                /\ n = 0 => out.Percentage = 0
                /\ n > 0 => out.Percentage * n = out.Total

\* C6 amended: Total is that sum with its fraction dropped, Percentage is the
\* sum / (100 x the number of present values) x 100 to the nearest hundredth,
\* and both are 0 when no value is present.
C6_SkipMissingRounded ==
    (pc = "returned" /\ ~treat_missing_as_zero) =>
        \A i \in DOMAIN agg_out.rows :
            LET n == Cardinality(PresentIn(i))
                sum == SumPresent(i, PresentIn(i))
                out == agg_out.rows[i]
                err == out.Percentage * n - sum
            IN  /\ out.Total % 100 = 0
                /\ out.Total <= sum /\ sum < out.Total + 100
                /\ n = 0 => (out.Percentage = 0 /\ out.Total = 0)
                /\ n > 0 => (out.Percentage # NaN /\ 2 * err <= n /\ -2 * err <= n)

\* C6 witness: skip-missing on a row with one score missing and one
\* fractional: Total 150 from a sum of 150.52, Percentage 75.26
C6_Witness ==
    /\ pc = "returned" /\ ~treat_missing_as_zero
    /\ subject_cols = {"Math", "Science", "English"}
    /\ agg_df.cols = {"Math", "Science", "English"}
    /\ Len(agg_out.rows) = 1
    /\ agg_df.rows[1].Math = NaN
    /\ agg_df.rows[1].Science = 5052
    /\ agg_df.rows[1].English = 10000
    /\ agg_out.rows[1].Total = 15000
    /\ agg_out.rows[1].Percentage = 7526

NoStats == [avg |-> 0, median |-> 0, highest |-> 0, pass_rate |-> 0]
PassCount == Cardinality({i \in DOMAIN stat_df.rows :
                 LET p == stat_df.rows[i].Percentage IN p # NaN /\ p >= 4000})

Named(f, text) == {j \in DOMAIN f.columns : f.columns[j] = Name(text)}

\* The CSV supplies the field text, with or without surrounding whitespace
Supplies(text) == \E j \in DOMAIN csv.columns : csv.columns[j].text = text

\* C8: the returned frame has every column name stripped and exactly one
\* StudentID and one Name column; a field the CSV lacks is synthesized (1..n,
\* "Student i") and a field it supplies, also under surrounding whitespace,
\* is kept and not synthesized.  Stated for a CSV whose names stay distinct
\* once stripped.
C8_LoadEnsuresIdentity ==
    (/\ pc = "returned"
     /\ \A i, j \in DOMAIN csv.columns :
           i # j => csv.columns[i].text # csv.columns[j].text) =>
        /\ \A j \in DOMAIN loaded.columns :
              ~loaded.columns[j].lead /\ ~loaded.columns[j].trail
        /\ Cardinality(Named(loaded, "StudentID")) = 1
        /\ Cardinality(Named(loaded, "Name")) = 1
        /\ \A j \in Named(loaded, "StudentID") :
              loaded.values[j] = IF Supplies("StudentID")
                                 THEN csv.values[CHOOSE k \in DOMAIN csv.columns :
                                                    csv.columns[k].text = "StudentID"]
                                 ELSE [i \in 1..csv.nrows |-> <<"range", 0, i>>]
        /\ \A j \in Named(loaded, "Name") :
              loaded.values[j] = IF Supplies("Name")
                                 THEN csv.values[CHOOSE k \in DOMAIN csv.columns :
                                                    csv.columns[k].text = "Name"]
                                 ELSE [i \in 1..csv.nrows |-> <<"Student", 0, i>>]

\* The frame the slot holds after a run that loaded frame f: f itself, or f
\* with the Total and Percentage the script adds to it
HeldAs(f) == IF SubjectCols(f) = {} THEN f ELSE WithTotals(f)

\* Whether load attempt k parses: 0 is the sample file when it is found, k > 0
\* is Files[k]
Parses(k) == k = 0 \/ (Files[k].parses /\ Files[k].suffix \in {".csv", ".xlsx"})

\* The frame the slot holds after load attempt k succeeded
SlotOf ==
    [k \in 0..Len(Files) |->
        IF ~Parses(k) THEN NoFrame
        ELSE IF k = 0 THEN HeldAs(LoadedFrame(SampleTable))
        ELSE IF Files[k].suffix = ".csv" THEN HeldAs(LoadedFrame(Files[k].table))
        ELSE HeldAs(ExcelFrame(Files[k].table))]

\* C9: a load attempt that raises leaves the session's slot as it was; one
\* that succeeds replaces it with the loaded frame; the slot holds nothing or
\* one whole frame that some load returned.
C9_SlotKeptOrReplaced ==
    /\ [](/\ Len(session_data) <= 1
          /\ session_data # <<>> =>
                \E k \in 0..Len(Files) : Parses(k) /\ session_data[1] = SlotOf[k])
    /\ [][/\ run'.ended = "load_raised" => session_data' = session_data
          /\ (run'.via \in {"sample", "upload"} /\ run'.ended # "load_raised") =>
                session_data' = <<SlotOf[run'.file]>>]_vars

\* C9 witness: a load has raised while the slot held a frame, which it
\* still holds
C9_Witness ==
    /\ run.ended = "load_raised"
    /\ session_data = <<HeldAs(LoadedFrame(Files[2].table))>>

\* C10: every row that is filtered, summarized and exported carries Total,
\* Percentage and a Grade that is the grade of its Percentage, whichever way
\* the frame was loaded.
C10_AggregatedBeforeUse ==
    run.ended = "done" =>
        /\ {"Total", "Percentage", "Grade"} \subseteq df_filtered.cols
        /\ \A i \in DOMAIN df_filtered.rows :
              df_filtered.rows[i].Grade = Ladder(df_filtered.rows[i].Percentage)
        /\ {"Total", "Percentage", "Grade"} \subseteq exported.csv_data.header
        /\ \A i \in DOMAIN exported.csv_data.records :
              exported.csv_data.records[i].Grade
                  = Ladder(exported.csv_data.records[i].Percentage)

====
